---- MODULE Spec2Model ----
(***************************************************************************)
(* Model of snorkel/classification/data.py: split_data and its helpers     *)
(* fractions_to_counts and slice_data, together with the process-wide      *)
(* pseudo-random generator that split_data seeds and draws from.           *)
(*                                                                         *)
(* Row indices are 0-based as in the source; TLA+ sequences are 1-based,   *)
(* so the element with index i sits at position i + 1.                     *)
(*                                                                         *)
(* A fraction is the pair <<num, den>>.  An int split c over n samples is  *)
(* the quotient c / n; a float split is a dyadic fraction v / Den, which   *)
(* binary floating point represents exactly, so sums and the products      *)
(* m * frac are exact in the source for these values.  Split entries are   *)
(* non-negative, as the data model of the split specification requires.    *)
(***************************************************************************)
EXTENDS Integers, Sequences, FiniteSets, TLC

\* ---------------------------------------------------------------- bounds
MaxN == 3
MaxK == 3
FracBits == 1

Den == 2 ^ FracBits

\* ------------------------------------------------------------- optionals
None == <<>>
Some(x) == <<x>>
IsNone(o) == o = <<>>
Get(o) == o[1]

\* --------------------------------------------------- the random generator
\* The generator is a deterministic state machine: seeding fixes the state,
\* each draw returns a function of the state and advances it.
RngStates == 0 .. 3
Seeds == {1}
Labels == {0, 1}

RandomSeed(s) == s % Cardinality(RngStates)
RandBelow(g, k) == g % k
NextRng(g) == (g + 1) % Cardinality(RngStates)

\* random.shuffle(x): for i in reversed(range(1, len(x))):
\*                        j = randbelow(i + 1); x[i], x[j] = x[j], x[i]
RECURSIVE ShuffleFrom(_, _, _)
ShuffleFrom(x, i, g) ==
    IF i < 1
    THEN [x |-> x, g |-> g]
    ELSE LET j == RandBelow(g, i + 1)
             y == [p \in 1 .. Len(x) |->
                      IF p = i + 1 THEN x[j + 1]
                      ELSE IF p = j + 1 THEN x[i + 1] ELSE x[p]]
         IN  ShuffleFrom(y, i - 1, NextRng(g))

RandomShuffle(x, g) == ShuffleFrom(x, Len(x) - 1, g)

\* Number of draws random.shuffle takes for a sequence of length m.
ShuffleDraws(m) == IF m > 1 THEN m - 1 ELSE 0

\* ------------------------------------------------------ split specifications
IntEntry(c) == [int |-> TRUE, v |-> c]
FloatEntry(k) == [int |-> FALSE, v |-> k]

RECURSIVE SumV(_)
SumV(s) == IF s = <<>> THEN 0 ELSE s[1].v + SumV(Tail(s))

RECURSIVE SumSeq(_)
SumSeq(s) == IF s = <<>> THEN 0 ELSE s[1] + SumSeq(Tail(s))

AllInts(splits) == \A i \in 1 .. Len(splits) : splits[i].int
AllFloats(splits) == \A i \in 1 .. Len(splits) : ~splits[i].int

\* Lines 178-192: validity check and conversion to fractions.
ResolveSplits(n, splits) ==
    IF AllInts(splits)
    THEN IF SumV(splits) # n
         THEN [raised |-> "ValueError", fracs |-> <<>>]
         ELSE IF n = 0
              THEN [raised |-> "ZeroDivisionError", fracs |-> <<>>]
              ELSE [raised |-> "", fracs |-> [i \in 1 .. Len(splits) |-> <<splits[i].v, n>>]]
    ELSE IF AllFloats(splits)
         THEN IF SumV(splits) # Den
              THEN [raised |-> "ValueError", fracs |-> <<>>]
              ELSE [raised |-> "", fracs |-> [i \in 1 .. Len(splits) |-> <<splits[i].v, Den>>]]
         ELSE [raised |-> "ValueError", fracs |-> <<>>]

\* int(np.round(num / den)) for num >= 0, den > 0: round half to even.
RoundHalfEven(num, den) ==
    LET q == num \div den
        r == num % den
    IN  IF 2 * r < den THEN q
        ELSE IF 2 * r > den THEN q + 1
        ELSE IF q % 2 = 0 THEN q ELSE q + 1

\* Lines 146-151.
fractions_to_counts_no_fix(fracs, m) ==
    [i \in 1 .. Len(fracs) |-> RoundHalfEven(m * fracs[i][1], fracs[i][2])]

fractions_to_counts(fracs, m) ==
    LET K == Len(fracs)
        rounded == [i \in 1 .. K |-> RoundHalfEven(m * fracs[i][1], fracs[i][2])]
    IN  [i \in 1 .. K |->
            IF i < K THEN rounded[i] ELSE m - SumSeq(SubSeq(rounded, 1, K - 1))]

\* Lines 210-211: counts.insert(0, 0); np.cumsum(counts).
cum_counts_no_zero(counts) ==
    [i \in 1 .. Len(counts) + 1 |-> SumSeq(SubSeq(counts, 1, IF i > Len(counts) THEN Len(counts) ELSE i))]

cum_counts(counts) ==
    [i \in 1 .. Len(counts) + 1 |-> SumSeq(SubSeq(counts, 1, i - 1))]

\* Python's s[a:b] on a sequence, with its clamping of out-of-range bounds
\* and its reading of a negative bound as counted from the end.
SliceBound(i, len) ==
    IF i < 0 THEN (IF i + len < 0 THEN 0 ELSE i + len)
    ELSE IF i > len THEN len ELSE i

PySlice(s, a, b) ==
    LET lo == SliceBound(a, Len(s))
        hi == SliceBound(b, Len(s))
    IN  IF lo >= hi THEN <<>> ELSE SubSeq(s, lo + 1, hi)

\* ------------------------------------------------------------ sampling pools
Arange(n) == [i \in 1 .. n |-> i - 1]

\* Keys of pools_dict in insertion order: the distinct values, first seen first.
RECURSIVE FirstSeen(_, _)
FirstSeen(vals, acc) ==
    IF vals = <<>> THEN acc
    ELSE IF \E k \in 1 .. Len(acc) : acc[k] = vals[1]
         THEN FirstSeen(Tail(vals), acc)
         ELSE FirstSeen(Tail(vals), Append(acc, vals[1]))

PoolOf(vals, v) == SelectSeq(Arange(Len(vals)), LAMBDA i : vals[i + 1] = v)

\* Lines 194-201.
MakePools(n, stratify_by) ==
    IF IsNone(stratify_by)
    THEN <<Arange(n)>>
    ELSE LET vals == Get(stratify_by)
             keys == FirstSeen(vals, <<>>)
         IN  [k \in 1 .. Len(keys) |-> PoolOf(vals, keys[k])]

\* Line 206: the condition under which a pool is shuffled.
DoShuffleFlagOnly(shuffle, stratify_by) == shuffle

DoShuffleAlways(shuffle, stratify_by) == TRUE

DoShuffle(shuffle, stratify_by) == shuffle \/ ~IsNone(stratify_by)

\* Lines 206-213: the body of the loop for one pool.  st carries the
\* assignments, the generator, and a log of each pool as sliced and of its
\* counts.
AssignPool(pool0, fracs, doShuffle, st) ==
    LET sh == IF doShuffle
              THEN RandomShuffle(pool0, st.g)
              ELSE [x |-> pool0, g |-> st.g]
        pool == sh.x
        counts == fractions_to_counts(fracs, Len(pool))
        cum == cum_counts(counts)
    IN  [assignments |->
             [i \in 1 .. Len(fracs) |->
                 st.assignments[i] \o PySlice(pool, cum[i], cum[i + 1])],
         g |-> sh.g,
         draws |-> st.draws + (IF doShuffle THEN ShuffleDraws(Len(pool)) ELSE 0),
         pools |-> Append(st.pools, pool),
         counts |-> Append(st.counts, counts)]

\* Lines 204-205: the loop over the pools.
RECURSIVE AssignPools(_, _, _, _)
AssignPools(pools, fracs, doShuffle, st) ==
    IF pools = <<>> THEN st
    ELSE AssignPools(Tail(pools), fracs, doShuffle,
                     AssignPool(pools[1], fracs, doShuffle, st))

\* ------------------------------------------------------------------- slicing
\* The rows of an input collection of n samples.
Row(i) == 10 + i
Data(n) == [p \in 1 .. n |-> Row(p - 1)]

SeqRange(s) == {s[k] : k \in 1 .. Len(s)}

\* Lines 153-165.
slice_data_index_order(kind, data, indices) ==
    [k \in 1 .. Len(indices) |-> data[indices[k] + 1]]

slice_data_by_value(kind, data, indices) ==
    IF kind = "list"
    THEN SelectSeq(data, LAMBDA d : d \in SeqRange(indices))
    ELSE [k \in 1 .. Len(indices) |-> data[indices[k] + 1]]

slice_data(kind, data, indices) ==
    IF kind = "list"
    THEN LET kept == SelectSeq(Arange(Len(data)), LAMBDA i : i \in SeqRange(indices))
         IN  [k \in 1 .. Len(kept) |-> data[kept[k] + 1]]
    ELSE [k \in 1 .. Len(indices) |-> data[indices[k] + 1]]

\* Lines 215-228.
MakeResult(inputs, n, assignments, index_only) ==
    IF index_only THEN assignments
    ELSE LET outputs == [d \in 1 .. Len(inputs) |->
                            [s \in 1 .. Len(assignments) |->
                                slice_data(inputs[d], Data(n), assignments[s])]]
         IN  IF Len(outputs) = 1 THEN outputs[1] ELSE outputs

\* Lines 167-169.
SeededIgnoringSeed(seed, g) == g

Seeded(seed, g) == IF IsNone(seed) THEN g ELSE RandomSeed(Get(seed))

\* The whole of split_data as a function of its arguments and of the state of
\* the generator when it is called.
split_data(a, g0) ==
    LET g1 == Seeded(a.seed, g0)
        res == ResolveSplits(a.n, a.splits)
    IN  IF res.raised # ""
        THEN [raised |-> res.raised, g |-> g1, draws |-> 0, fracs |-> <<>>,
              pools |-> <<>>, counts |-> <<>>, assignments |-> <<>>, result |-> <<>>]
        ELSE LET st == AssignPools(MakePools(a.n, a.stratify_by), res.fracs,
                                   DoShuffle(a.shuffle, a.stratify_by),
                                   [assignments |-> [i \in 1 .. Len(a.splits) |-> <<>>],
                                    g |-> g1, draws |-> 0, pools |-> <<>>, counts |-> <<>>])
             IN  [raised |-> "", g |-> st.g, draws |-> st.draws, fracs |-> res.fracs,
                  pools |-> st.pools, counts |-> st.counts,
                  assignments |-> st.assignments,
                  result |-> MakeResult(a.inputs, a.n, st.assignments, a.index_only)]

\* ------------------------------------------------------------------ the state
VARIABLES
    rng,      \* state of the process-wide generator
    pc,       \* "idle", "returned" or "raised"
    args,     \* arguments of the last call of split_data
    rng0,     \* state of the generator when that call began
    ret       \* what that call computed and returned or raised

vars == <<rng, pc, args, rng0, ret>>

\* ----------------------------------------------------------- the call's inputs
SeqsOf(S, lo, hi) == UNION {[1 .. k -> S] : k \in lo .. hi}

\* Split lists of 1 .. MaxK entries: int counts, float fractions v / Den, and
\* lists that mix the two kinds.  Lists whose sum misses the required one (n,
\* resp. 1.0) are included, up to one unit above the largest required sum.
IntSplitLists ==
    {[i \in 1 .. Len(s) |-> IntEntry(s[i])] :
        s \in {t \in SeqsOf(0 .. MaxN, 1, MaxK) : SumSeq(t) <= MaxN + 1}}
FloatSplitLists ==
    {[i \in 1 .. Len(s) |-> FloatEntry(s[i])] :
        s \in {t \in SeqsOf(0 .. Den, 1, MaxK) : SumSeq(t) <= Den + 1}}
MixedSplitLists ==
    {[i \in 1 .. Len(s) |-> IF s[i] THEN IntEntry(1) ELSE FloatEntry(1)] :
        s \in {t \in SeqsOf(BOOLEAN, 2, MaxK) : (\E i \in 1 .. Len(t) : t[i]) /\ (\E i \in 1 .. Len(t) : ~t[i])}}
SplitLists == IntSplitLists \cup FloatSplitLists \cup MixedSplitLists

\* *inputs: one array, or a list and an array of the same n rows.  With
\* index_only=True the collections serve only for their length n, and one
\* array stands for them.
InputLists(index_only) ==
    IF index_only THEN {<<"array">>} ELSE {<<"array">>, <<"list", "array">>}

\* stratify_by arrays of length n.  Pools are ordered by first appearance of
\* their value, not by the value, so the values are named in that order: the
\* first sample has value 0.
StratifyArrays(n) == {v \in [1 .. n -> Labels] : n > 0 => v[1] = 0}

ArgsOf(n) ==
    UNION {[n : {n},
            inputs : InputLists(io),
            splits : SplitLists,
            shuffle : BOOLEAN,
            stratify_by : {None} \cup {Some(v) : v \in StratifyArrays(n)},
            index_only : {io},
            seed : {None} \cup {Some(s) : s \in Seeds}] : io \in BOOLEAN}

NoArgs == <<>>
NoRet == <<>>

Init ==
    /\ rng \in RngStates
    /\ pc = "idle"
    /\ args = NoArgs
    /\ rng0 = rng
    /\ ret = NoRet

\* split_data(...) runs to its return statement.
SplitDataReturns ==
    /\ pc = "idle"
    /\ \E n \in 0 .. MaxN : \E a \in ArgsOf(n) :
         LET r == split_data(a, rng)
         IN  /\ ResolveSplits(a.n, a.splits).raised = ""
             /\ r.raised = ""
             /\ args' = a
             /\ ret' = r
             /\ rng' = r.g
    /\ rng0' = rng
    /\ pc' = "returned"

\* split_data(...) raises.
SplitDataRaises ==
    /\ pc = "idle"
    /\ \E n \in 0 .. MaxN : \E a \in ArgsOf(n) :
         LET r == split_data(a, rng)
         IN  /\ ResolveSplits(a.n, a.splits).raised # ""
             /\ r.raised # ""
             /\ args' = a
             /\ ret' = r
             /\ rng' = r.g
    /\ rng0' = rng
    /\ pc' = "raised"

\* The caller is done with the outcome of the call.
Discard ==
    /\ pc \in {"returned", "raised"}
    /\ pc' = "idle"
    /\ args' = NoArgs
    /\ ret' = NoRet
    /\ rng0' = rng
    /\ UNCHANGED rng

\* Other code of the process draws from the shared generator between calls.
ExternalDraw ==
    /\ pc = "idle"
    /\ rng' = NextRng(rng)
    /\ rng0' = rng'
    /\ UNCHANGED <<pc, args, ret>>

Next == SplitDataReturns \/ SplitDataRaises \/ Discard \/ ExternalDraw

Spec == Init /\ [][Next]_vars

\* ===================================================================== claims
Returned == pc = "returned"
Stratified == ~IsNone(args.stratify_by)

RECURSIVE Flatten(_)
Flatten(ss) == IF ss = <<>> THEN <<>> ELSE ss[1] \o Flatten(Tail(ss))

Occurrences(s, x) == Cardinality({k \in 1 .. Len(s) : s[k] = x})
CountIn(s, S) == Cardinality({k \in 1 .. Len(s) : s[k] \in S})
Ascending(s) == \A k \in 1 .. Len(s) - 1 : s[k] < s[k + 1]
NonEmptySplits(A) == Cardinality({i \in 1 .. Len(A) : A[i] # <<>>})

\* C1: with index_only=True the K returned index lists are pairwise disjoint,
\* hold no index twice, and their union is exactly {0, ..., N-1}; for every N,
\* K, valid split list, with or without stratify_by, shuffle true or false.
Thm_C1_Partition ==
    (Returned /\ args.index_only) =>
        LET flat == Flatten(ret.result)
        IN  /\ Len(ret.result) = Len(args.splits)
            /\ \A j \in 0 .. args.n - 1 : Occurrences(flat, j) = 1
            /\ SeqRange(flat) = 0 .. args.n - 1

\* C1 witness: a stratified call returned index lists although the rounded
\* counts of a pool overshot its size (its last count is negative).
Wit_C1_Partition ==
    /\ Returned /\ args.index_only /\ Stratified
    /\ args.n >= 3
    /\ NonEmptySplits(ret.result) >= 2
    /\ \E p \in 1 .. Len(ret.counts) : \E i \in 1 .. Len(ret.counts[p]) : ret.counts[p][i] < 0

ValidSpec(n, splits) ==
    \/ AllInts(splits) /\ SumV(splits) = n
    \/ AllFloats(splits) /\ SumV(splits) = Den

\* C2: split_data returns for every all-float list summing to 1.0 and every
\* all-int list summing to N (N = 0 and zero entries included), and raises
\* ValueError for every other split list.
Cex_C2_ValidSpecsSucceed ==
    pc # "idle" =>
        IF ValidSpec(args.n, args.splits)
        THEN pc = "returned"
        ELSE pc = "raised" /\ ret.raised = "ValueError"

\* C3: with a seed and no stratification the index assignments (and what is
\* returned) are the same whatever the state of the generator was when the
\* call began.
Thm_C3_SeedDeterminism ==
    (Returned /\ ~IsNone(args.seed) /\ ~Stratified) =>
        \A g \in RngStates :
            LET other == split_data(args, g)
            IN  /\ other.raised = ""
                /\ other.assignments = ret.assignments
                /\ other.result = ret.result

\* C3 witness: a seeded, unstratified, shuffling call that really permuted the
\* indices, begun in a generator state other than the one the seed sets.
Wit_C3_SeedDeterminism ==
    /\ Returned /\ ~IsNone(args.seed) /\ ~Stratified /\ args.shuffle
    /\ args.n >= 3
    /\ rng0 # RandomSeed(Get(args.seed))
    /\ ret.pools[1] # Arange(args.n)
    /\ NonEmptySplits(ret.assignments) >= 2

\* C4: fractions_to_counts returns K non-negative integer counts whose sum is
\* exactly the pool size m, for every list of resolved fractions and m >= 0.
Cex_C4_CountsNonNegative ==
    Returned =>
        \A p \in 1 .. Len(ret.pools) :
            /\ Len(ret.counts[p]) = Len(args.splits)
            /\ SumSeq(ret.counts[p]) = Len(ret.pools[p])
            /\ \A i \in 1 .. Len(ret.counts[p]) : ret.counts[p][i] >= 0

\* C5: with stratify_by set, for every value v occurring m times, every split
\* i but the last holds round(m * fraction_i) indices of v, the last split
\* holds the remaining ones, and every index of v is in exactly one split.
Cex_C5_StratifiedShares ==
    (Returned /\ Stratified) =>
        LET vals == Get(args.stratify_by)
            A == ret.assignments
            K == Len(A)
        IN  \A v \in SeqRange(vals) :
                LET idx == {j \in 0 .. args.n - 1 : vals[j + 1] = v}
                    m == Cardinality(idx)
                    share == [i \in 1 .. K |-> CountIn(A[i], idx)]
                IN  /\ \A i \in 1 .. K - 1 :
                           share[i] = RoundHalfEven(m * ret.fracs[i][1], ret.fracs[i][2])
                    /\ share[K] = m - SumSeq(SubSeq(share, 1, K - 1))
                    /\ \A j \in idx : Occurrences(Flatten(A), j) = 1

\* What is returned, as one list of K slices per input collection.
OutputsPerInput == IF Len(args.inputs) = 1 THEN <<ret.result>> ELSE ret.result

\* C6: with index_only=True the K index lists themselves are returned; with
\* index_only=False the K slices of each input collection together hold every
\* row of the collection exactly once and nothing else.
Thm_C6_SlicesCoverRows ==
    Returned =>
        IF args.index_only
        THEN ret.result = ret.assignments
        ELSE /\ Len(OutputsPerInput) = Len(args.inputs)
             /\ \A d \in 1 .. Len(args.inputs) :
                    LET flat == Flatten(OutputsPerInput[d])
                    IN  /\ Len(OutputsPerInput[d]) = Len(args.splits)
                        /\ Len(flat) = args.n
                        /\ \A p \in 1 .. args.n : Occurrences(flat, Data(args.n)[p]) = 1

\* C6 witness: a list and an array were sliced after a shuffle that permuted
\* the indices, into at least two non-empty slices.
Wit_C6_SlicesCoverRows ==
    /\ Returned /\ ~args.index_only
    /\ args.inputs = <<"list", "array">>
    /\ args.n >= 3
    /\ ret.pools[1] # Arange(args.n)
    /\ NonEmptySplits(ret.assignments) >= 2

\* C7: without stratification, split i holds exactly splits[i] indices for an
\* all-int list summing to N, and exactly N * f_i indices for float fractions
\* whose products N * f_i are all integers.
Thm_C7_SplitSizes ==
    (Returned /\ ~Stratified) =>
        LET A == ret.assignments
            sp == args.splits
        IN  /\ AllInts(sp) => \A i \in 1 .. Len(sp) : Len(A[i]) = sp[i].v
            /\ (AllFloats(sp) /\ \A i \in 1 .. Len(sp) : (args.n * sp[i].v) % Den = 0) =>
                   \A i \in 1 .. Len(sp) : Len(A[i]) * Den = args.n * sp[i].v

\* C7 witness: an unstratified shuffling call with float fractions whose
\* products with N are integers, at least two of them positive.
Wit_C7_SplitSizes ==
    /\ Returned /\ ~Stratified /\ args.shuffle
    /\ AllFloats(args.splits)
    /\ args.n >= 2
    /\ \A i \in 1 .. Len(args.splits) : (args.n * args.splits[i].v) % Den = 0
    /\ NonEmptySplits(ret.assignments) >= 2

\* C8: when stratify_by is set the shuffle flag is ignored: the call with the
\* other value of shuffle, begun in the same generator state, returns the same
\* index assignments and takes the same draws from the generator.
Thm_C8_ShuffleIgnored ==
    (Returned /\ Stratified) =>
        LET other == split_data([args EXCEPT !.shuffle = ~args.shuffle], rng0)
        IN  /\ other.assignments = ret.assignments
            /\ other.result = ret.result
            /\ other.draws = ret.draws
            /\ other.g = ret.g

\* C8 witness: a stratified call with shuffle=False whose pool was permuted.
Wit_C8_ShuffleIgnored ==
    /\ Returned /\ Stratified /\ ~args.shuffle
    /\ ret.draws > 0
    /\ \E p \in 1 .. Len(ret.pools) : ~Ascending(ret.pools[p])

RowsAt(n, indices) == [k \in 1 .. Len(indices) |-> Row(indices[k])]

\* C9: slice_data returns the selected rows of a list in ascending index
\* order whatever the order of the index list, and the rows of an array in
\* the order of the index list; both hold the same set of rows.
Thm_C9_SliceOrder ==
    (Returned /\ ~args.index_only) =>
        \A d \in 1 .. Len(args.inputs) : \A s \in 1 .. Len(args.splits) :
            LET got == OutputsPerInput[d][s]
                ind == ret.assignments[s]
            IN  /\ args.inputs[d] = "list" =>
                       got = RowsAt(args.n, SortSeq(ind, LAMBDA x, y : x < y))
                /\ args.inputs[d] = "array" => got = RowsAt(args.n, ind)
                /\ SeqRange(got) = {Row(j) : j \in SeqRange(ind)}

\* C9 witness: the same index list, not in ascending order, sliced a list and
\* an array, and the two slices differ in order.
Wit_C9_SliceOrder ==
    /\ Returned /\ ~args.index_only
    /\ args.inputs = <<"list", "array">>
    /\ \E s \in 1 .. Len(args.splits) :
           /\ ~Ascending(ret.assignments[s])
           /\ ret.result[1][s] # ret.result[2][s]
           /\ Ascending(ret.result[1][s])

\* The ascending sequence of the row indices j of n rows with a <= j < b.
IndexRange(a, b, n) == SelectSeq(Arange(n), LAMBDA j : a <= j /\ j < b)

====
